---- MODULE Spec2Model ----
(***************************************************************************)
(* Model of the retrieval-augmented query pipeline of the RAG chatbot     *)
(* backend: VectorStore.search_similar (services/vector_store.py),         *)
(* GeminiService.classify_intent / _build_prompt                           *)
(* (services/gemini_service.py) and RAGService.query with its conversation *)
(* memory (services/rag_service.py).                                       *)
(*                                                                         *)
(* Scores and distances are fixed-point numbers in hundredths: the value   *)
(* 1.0 of the source is One == 100.                                        *)
(***************************************************************************)
EXTENDS Integers, Sequences, FiniteSets, TLC

\* ------------------------------------------------------------------------
\* Bounds of the model
\* ------------------------------------------------------------------------
MaxDocs == 2
MaxTopK == 2
MaxQueries == 7
MaxConcQueries == 2
MaxPipeQueries == 2
NumThreads == 2
MaxConfTopK == 6
MaxStoreOps == 4
MaxIngestOps == 2
MaxFrameOps == 3
MaxFrameQueries == 1
MaxExtraPages == 2
MaxTextLen == 4
MaxMaxChars == 3

\* ------------------------------------------------------------------------
\* Program constants
\* ------------------------------------------------------------------------
TOP_K_RESULTS == 5
NEC_MAX_PAGES == 100
MaxTurns == 10
PromptTurns == 5
One == 100

\* DOCUMENT_SOURCES, in the iteration order of the dictionary
DOCUMENT_SOURCES == <<"NEC", "WATTMONK", "GENERAL">>
SourceKeys == {DOCUMENT_SOURCES[i] : i \in 1..Len(DOCUMENT_SOURCES)}

\* Python's None for an optional string, and the falsy test `not x`
None == "None"
Truthy(s) == s # None /\ s # ""

\* Backend distances (hundredths) a collection query may report: [0, 2]
Dists == {0, 10, 200}

\* ------------------------------------------------------------------------
\* Generic helpers
\* ------------------------------------------------------------------------
Min(a, b) == IF a <= b THEN a ELSE b

RECURSIVE SeqsUpTo(_, _)
SeqsUpTo(S, n) ==
  IF n = 0 THEN {<<>>}
  ELSE LET shorter == SeqsUpTo(S, n - 1)
       IN shorter \cup {Append(s, x) : s \in {q \in shorter : Len(q) = n - 1}, x \in S}

SeqsOfLen(S, n) == {s \in SeqsUpTo(S, n) : Len(s) = n}

\* Python slice s[:n] for n >= 0
Take(s, n) == SubSeq(s, 1, Min(n, Len(s)))

\* The slice s[:n] where s[-n:] is meant
FirstN(s, n) == SubSeq(s, 1, IF n <= Len(s) THEN n ELSE Len(s))

\* Python slice s[-n:] for n >= 1
LastN(s, n) == IF Len(s) <= n THEN s ELSE SubSeq(s, Len(s) - n + 1, Len(s))

\* ------------------------------------------------------------------------
\* VectorStore.search_similar
\* ------------------------------------------------------------------------
\* A fragment stored in a collection: its text (identified by id) and the
\* "source" entry of its stored metadata.
Fragment(i, s) == [id |-> i, msource |-> s]

\* What collection.query answers for n_results = n on a collection holding
\* the fragments frags: it raises, or it reports min(n, count) rows, each
\* with a distance.
QueryAnswers(frags, n) ==
  {[ok |-> FALSE, rows |-> <<>>]} \cup
  {[ok |-> TRUE,
    rows |-> [i \in 1..Len(ds) |-> [doc |-> frags[i], dist |-> ds[i]]]] :
      ds \in SeqsOfLen(Dists, Min(n, Len(frags)))}

\* One entry of all_results
ResultOf(row, source_key) ==
  [content |-> row.doc.id,
   source  |-> source_key,
   score   |-> One - row.dist]

\* The rows of one collection appended to all_results; a raising query
\* appends nothing (except ...: continue)
CollectFrom(answer, source_key) ==
  IF answer.ok
  THEN [i \in 1..Len(answer.rows) |-> ResultOf(answer.rows[i], source_key)]
  ELSE <<>>

\* A search that looks nowhere when it is given a source it does not know
CollectionsToSearchStrict(source) ==
  IF source = None THEN DOCUMENT_SOURCES
  ELSE IF source \in SourceKeys THEN <<source>>
  ELSE <<>>

\* A search that ignores the source it is given
CollectionsToSearchAll(source) == DOCUMENT_SOURCES

\* if source and source in self.collections: that collection, else all
CollectionsToSearch(source) ==
  IF Truthy(source) /\ source \in SourceKeys THEN <<source>> ELSE DOCUMENT_SOURCES

\* A loop that stops at the first collection whose query raises
RECURSIVE CollectAllBreak(_, _)
CollectAllBreak(answers, keys) ==
  IF keys = <<>> \/ ~answers[Head(keys)].ok THEN <<>>
  ELSE CollectFrom(answers[Head(keys)], Head(keys)) \o CollectAllBreak(answers, Tail(keys))

\* for source_key, collection in collections_to_search.items(): ...
RECURSIVE CollectAll(_, _)
CollectAll(answers, keys) ==
  IF keys = <<>> THEN <<>>
  ELSE CollectFrom(answers[Head(keys)], Head(keys)) \o CollectAll(answers, Tail(keys))

\* A sort that puts an element in front of the elements of equal score
InsertDescUnstable(sorted, x) ==
  LET before == {i \in 1..Len(sorted) : sorted[i].score > x.score}
      k == Cardinality(before)
  IN SubSeq(sorted, 1, k) \o <<x>> \o SubSeq(sorted, k + 1, Len(sorted))

\* list.sort(key=score, reverse=True): stable, descending
InsertDesc(sorted, x) ==
  LET before == {i \in 1..Len(sorted) : sorted[i].score >= x.score}
      k == Cardinality(before)
  IN SubSeq(sorted, 1, k) \o <<x>> \o SubSeq(sorted, k + 1, Len(sorted))

RECURSIVE SortDescFrom(_, _)
SortDescFrom(sorted, rest) ==
  IF rest = <<>> THEN sorted
  ELSE SortDescFrom(InsertDesc(sorted, Head(rest)), Tail(rest))

SortByScoreDesc(s) == SortDescFrom(<<>>, s)

EffectiveTopK(top_k) == IF top_k = <<>> THEN TOP_K_RESULTS ELSE top_k[1]

SearchSimilar(answers, source, top_k) ==
  Take(SortByScoreDesc(CollectAll(answers, CollectionsToSearch(source))),
       EffectiveTopK(top_k))

\* ------------------------------------------------------------------------
\* State
\* ------------------------------------------------------------------------
VARIABLES
  ck,                   \* a call of chunk_text of app/ingest.py: its arguments and locals
  pdf,                  \* a call of DocumentProcessor.extract_text_from_pdf for an ingested file
  conf,                 \* a direct call of RAGService._calculate_confidence_score
  chroma,               \* the names of the collections the Chroma client holds
  op,                   \* the last add_documents / delete_collection call and its outcome
  collections,          \* VectorStore.collections: source key -> stored fragments
  sq,                   \* a direct call of VectorStore.search_similar
  conversation_memory,  \* RAGService.conversation_memory: session id -> list reference
  heap,                 \* the live Python list objects: reference -> content
  uuid_count,           \* number of uuid4() session ids generated so far
  nqueries,             \* number of RAGService.query calls started so far
  appended,             \* history: session id -> numbers of the queries whose turns were appended
  pc,                   \* position of each thread inside RAGService.query
  loc                   \* local variables of each thread's RAGService.query call

vars == <<ck, pdf, conf, chroma, op, collections, sq, conversation_memory, heap, uuid_count, nqueries, appended, pc, loc>>

Threads == 1..NumThreads

\* Session ids: supplied by the caller, or generated by uuid4()
CallerSids == {<<"caller", 1>>, <<"caller", 2>>}
NoSid == <<"none", 0>>
Uuid(n) == <<"uuid", n>>

\* A generator that hands out the same id every time
ConstantSessionId(count) == Uuid(1)

\* str(uuid.uuid4()): an id that no earlier call has generated, count being
\* the number of ids generated so far
FreshSessionId(count) == Uuid(count + 1)

\* Arguments a caller may pass
TopKArgs == {<<>>} \cup {<<k>> : k \in 1..MaxTopK}
FilterArgs == {None, "NEC", "BOGUS"}
SearchSources == {None, ""} \cup SourceKeys \cup {"BOGUS"}

\* What model.generate_content answers to the classification prompt
\* (after strip().upper()), or that it raises
ClassifierOutcomes == {"NEC", "WATTMONK", "GENERAL", "SOLAR", "RAISE"}

\* References to list objects: a list is named after the query that made it
\* and the statement that made it ("new" for [], "slice" for [-10:])
NoRef == <<0, "none">>
NewList(qn) == <<qn, "new">>
SliceList(qn) == <<qn, "slice">>
NoPrompt == [history |-> <<>>, context |-> <<>>, query |-> <<"none", 0>>]
NoResult == [answer |-> <<"none", 0>>, sources |-> <<>>, context_used |-> 0,
             intent_classification |-> None, confidence_score |-> 0,
             session_id |-> NoSid]

\* The external calls a query has made so far
NoCalls == [classify |-> 0, embed |-> 0, search |-> 0, generate |-> 0]

IdleLoc ==
  [session_id |-> NoSid, arg_session_id |-> NoSid, qn |-> 0, calls |-> NoCalls,
   arg_filter |-> None, classifier |-> "NOT_CALLED",
   source_filter |-> None, top_k |-> <<>>, searched |-> {}, relevant_docs |-> <<>>,
   context |-> <<>>, conversation_history |-> NoRef, prompt |-> NoPrompt,
   response |-> <<"none", 0>>, conversation |-> NoRef, sliced |-> <<>>, result |-> NoResult]

\* dict item assignment d[k] = v
DictSet(d, k, v) == [x \in DOMAIN d \cup {k} |-> IF x = k THEN v ELSE d[x]]

IdleSq == [state |-> "idle", source |-> None, top_k |-> <<>>,
           answers |-> <<>>, result |-> <<>>]

IdleConf == [state |-> "idle", top_k |-> 0, relevant_docs |-> <<>>, confidence |-> 0]

IdlePdf == [state |-> "idle", source |-> None, filename |-> <<>>, total_pages |-> 0,
            max_pages_processed |-> "none", max_pages |-> 0, page_num |-> 0,
            extracted |-> 0]

IdleCk == [state |-> "idle", text |-> <<>>, max_chars |-> 0, overlap |-> 0, i |-> 0,
           chunks |-> <<>>]

\* str.lower() of a source key
Lower(key) ==
  CASE key = "NEC" -> "nec"
    [] key = "WATTMONK" -> "wattmonk"
    [] key = "GENERAL" -> "general"
    [] OTHER -> key

\* collection_name = f"documents_{source_key.lower()}"
CollectionName(source_key) == <<"documents_", Lower(source_key)>>

\* No add_documents or delete_collection call was made yet.  n counts the
\* calls, repeat the delete_collection calls in a row on one source,
\* cleared the fragments these calls removed, issued the document ids
\* generated so far; ids and chunks are the document_ids and chunks_created
\* of the call, status the HTTP status of an API call, stage the step of
\* ingest_document that raised.
NoOp == [name |-> "none", source |-> None, raised |-> FALSE, n |-> 0,
         added |-> 0, repeat |-> 0, cleared |-> 0, ids |-> <<>>, issued |-> 0,
         chunks |-> 0, status |-> 0, stage |-> "none"]

\* VectorStore.__init__: get_or_create_collection for every configured source
InitVectorStore ==
  /\ chroma = {CollectionName(s) : s \in SourceKeys}
  /\ op = NoOp

\* Collections holding sizes[s] fragments each, every fragment tagged with
\* the source of its collection
Populated(sizes) ==
  [s \in SourceKeys |-> [i \in 1..sizes[s] |-> Fragment(i, s)]]

\* The answers of the collections a search queries, each asked for n results
RECURSIVE AnswersFor(_, _, _)
AnswersFor(colls, keys, n) ==
  IF keys = <<>> THEN {<<>>}
  ELSE {(Head(keys) :> a) @@ f :
          a \in QueryAnswers(colls[Head(keys)], n),
          f \in AnswersFor(colls, Tail(keys), n)}

AllIdle == \A t \in Threads : pc[t] = "idle"

\* The turns that npairs sequential queries, numbered 1 - npairs .. 0, leave
\* in the list of their session
EarlierTurns(npairs) ==
  [i \in 1..(2 * npairs) |->
     IF i % 2 = 1 THEN [role |-> "user", content |-> <<"query", ((i + 1) \div 2) - npairs>>]
     ELSE [role |-> "assistant", content |-> <<"answer", (i \div 2) - npairs>>]]

\* The service with no query in progress, after npairs <= 5 earlier
\* sequential queries on the session <<"caller", 1>>; npairs = 0 is the
\* service as constructed
InitMemoryAfter(npairs) ==
  /\ heap = IF npairs = 0 THEN <<>> ELSE DictSet(<<>>, NewList(0), EarlierTurns(npairs))
  /\ conversation_memory =
       IF npairs = 0 THEN <<>> ELSE DictSet(<<>>, <<"caller", 1>>, NewList(0))
  /\ appended =
       IF npairs = 0 THEN <<>>
       ELSE DictSet(<<>>, <<"caller", 1>>, [i \in 1..npairs |-> i - npairs])
  /\ uuid_count = 0
  /\ nqueries = 0
  /\ pc = [t \in Threads |-> "idle"]
  /\ loc = [t \in Threads |-> IdleLoc]

InitMemory == InitMemoryAfter(0)

\* ------------------------------------------------------------------------
\* A direct call of VectorStore.search_similar (as test_search_detailed.py)
\* ------------------------------------------------------------------------
SearchCall ==
  /\ sq.state = "ready"
  /\ \E a \in AnswersFor(collections, CollectionsToSearch(sq.source), EffectiveTopK(sq.top_k)) :
       sq' = [sq EXCEPT !.state = "done",
                        !.answers = a,
                        !.result = SearchSimilar(a, sq.source, sq.top_k)]
  /\ UNCHANGED <<ck, pdf, conf, chroma, op, collections, conversation_memory, heap, uuid_count, nqueries, appended, pc, loc>>

InitSearch ==
  /\ collections \in {Populated(sz) : sz \in [SourceKeys -> 0..MaxDocs]}
  /\ sq \in {[state |-> "ready", source |-> s, top_k |-> k, answers |-> <<>>, result |-> <<>>] :
               s \in SearchSources, k \in TopKArgs}
  /\ conf = IdleConf
  /\ pdf = IdlePdf
  /\ ck = IdleCk
  /\ InitVectorStore
  /\ InitMemory

NextSearch == SearchCall

SpecSearch == InitSearch /\ [][NextSearch]_vars

\* ------------------------------------------------------------------------
\* VectorStore.add_documents and VectorStore.delete_collection, with direct
\* searches in between
\* ------------------------------------------------------------------------
\* Sources a caller may name
StoreSources == SourceKeys \cup {"BOGUS"}

queryVars == <<conversation_memory, heap, uuid_count, nqueries, appended, pc, loc>>
callVars == <<ck, pdf, conf>>

\* A call of the store has returned or raised in this step
StoreStep(names) == op'.n = op.n + 1 /\ op'.name \in names

\* client.delete_collection(name) and client.get_or_create_collection(name)
\* on the set of the client's collection names; deleting a collection the
\* client does not hold raises
ClientDelete(names, name) == names \ {name}
ClientGetOrCreate(names, name) == names \cup {name}

\* The record of a call that raised and changed nothing
Raised(name, source) ==
  [op EXCEPT !.name = name, !.source = source, !.raised = TRUE, !.n = @ + 1,
             !.added = 0, !.repeat = 0, !.cleared = 0, !.ids = <<>>,
             !.chunks = 0, !.status = 0, !.stage = "none"]

\* The record of a call that returned
Returned(name, source) ==
  [op EXCEPT !.name = name, !.source = source, !.raised = FALSE, !.n = @ + 1,
             !.added = 0, !.repeat = 0, !.cleared = 0, !.ids = <<>>,
             !.chunks = 0, !.status = 0, !.stage = "none"]

\* The "source" entries a document's metadata may carry
MetaSources == {"NEC", "WATTMONK"}

\* The documents a direct caller of add_documents passes, at least one: the
\* "source" entry of the metadata of each
DocumentLists == SeqsUpTo({[msource |-> m] : m \in MetaSources}, MaxDocs) \ {<<>>}

\* doc_id = str(uuid.uuid4()) for each document: ids no earlier call has
\* generated, issued being the number of ids generated so far
NewIds(count, issued) == [i \in 1..count |-> issued + i]

\* A store that files the documents of an unknown source under "GENERAL"
StoreAddDefault(name, documents, source) ==
  LET target == IF source \in DOMAIN collections THEN source ELSE "GENERAL"
      ids == NewIds(Len(documents), op.issued)
  IN /\ Len(collections[target]) + Len(documents) <= MaxDocs
     /\ collections' = [collections EXCEPT ![target] =
          @ \o [i \in 1..Len(documents) |-> Fragment(ids[i], documents[i].msource)]]
     /\ op' = [Returned(name, source) EXCEPT
          !.added = Len(documents), !.ids = ids, !.chunks = Len(documents),
          !.issued = @ + Len(documents)]

\* The body of add_documents(documents, embeddings, source): ValueError for
\* an unknown source; otherwise one collection.add of all documents, each
\* stored under a new id with its own metadata.  collection.add of no
\* document raises or adds nothing, depending on the client.
StoreAdd(name, documents, source) ==
  IF source \notin DOMAIN collections \/ CollectionName(source) \notin chroma
  THEN /\ op' = Raised(name, source)
       /\ UNCHANGED collections
  ELSE IF documents = <<>>
  THEN /\ op' \in {Raised(name, source), Returned(name, source)}
       /\ UNCHANGED collections
  ELSE LET ids == NewIds(Len(documents), op.issued)
       IN /\ Len(collections[source]) + Len(documents) <= MaxDocs
          /\ collections' = [collections EXCEPT ![source] =
               @ \o [i \in 1..Len(documents) |-> Fragment(ids[i], documents[i].msource)]]
          /\ op' = [Returned(name, source) EXCEPT
               !.added = Len(documents), !.ids = ids, !.chunks = Len(documents),
               !.issued = @ + Len(documents)]

\* add_documents(documents, embeddings, source)
AddDocuments(documents, source) ==
  /\ StoreAdd("add_documents", documents, source)
  /\ UNCHANGED <<chroma, sq>>
  /\ UNCHANGED callVars
  /\ UNCHANGED queryVars

\* metadata = {"filename": ..., "source": source, ..., **additional_metadata}:
\* additional is the "source" entry of additional_metadata, None without one
MergedSource(source, additional) == IF additional = None THEN source ELSE additional

\* process_document: nchunks chunks, each with the merged metadata
ProcessDocument(source, additional, nchunks) ==
  [i \in 1..nchunks |-> [msource |-> MergedSource(source, additional)]]

\* An ingestion that stores each chunk as soon as it is embedded
IngestDocumentEager(source, additional, nchunks, parsed, fail_at) ==
  /\ IF ~parsed
     THEN /\ op' = Raised("ingest_document", source)
          /\ UNCHANGED collections
     ELSE IF fail_at > 0
     THEN /\ source \in DOMAIN collections
          /\ Len(collections[source]) + fail_at - 1 <= MaxDocs
          /\ collections' = [collections EXCEPT ![source] =
               @ \o [i \in 1..fail_at - 1 |->
                       Fragment(op.issued + i, MergedSource(source, additional))]]
          /\ op' = [Raised("ingest_document", source) EXCEPT
               !.issued = @ + fail_at - 1, !.stage = "embed"]
     ELSE StoreAdd("ingest_document", ProcessDocument(source, additional, nchunks), source)
  /\ UNCHANGED <<chroma, sq>>
  /\ UNCHANGED callVars
  /\ UNCHANGED queryVars

\* RAGService.ingest_document: process_document (raises unless parsed),
\* generate_embeddings for all chunks (raises at chunk fail_at > 0), then
\* one add_documents
IngestDocument(source, additional, nchunks, parsed, fail_at) ==
  /\ IF ~parsed \/ fail_at > 0
     THEN /\ op' = [Raised("ingest_document", source) EXCEPT
               !.stage = IF ~parsed THEN "parse" ELSE "embed"]
          /\ UNCHANGED collections
     ELSE StoreAdd("ingest_document", ProcessDocument(source, additional, nchunks), source)
  /\ UNCHANGED <<chroma, sq>>
  /\ UNCHANGED callVars
  /\ UNCHANGED queryVars

\* A delete_collection that does not recreate the collection
DeleteCollectionOnly(source) ==
  /\ IF source \notin DOMAIN collections \/ CollectionName(source) \notin chroma
     THEN /\ op' = Raised("delete_collection", source)
          /\ UNCHANGED <<collections, chroma>>
     ELSE LET again == op.name = "delete_collection" /\ op.source = source
          IN /\ chroma' = ClientDelete(chroma, CollectionName(source))
             /\ collections' = [collections EXCEPT ![source] = <<>>]
             /\ op' = [Returned("delete_collection", source) EXCEPT
                  !.repeat = IF again THEN op.repeat + 1 ELSE 1,
                  !.cleared = (IF again THEN op.cleared ELSE 0) + Len(collections[source])]
  /\ UNCHANGED sq
  /\ UNCHANGED callVars
  /\ UNCHANGED queryVars

\* delete_collection(source): the collection is deleted by name and an
\* empty one of the same name takes its place in self.collections
DeleteCollection(source) ==
  /\ IF source \notin DOMAIN collections \/ CollectionName(source) \notin chroma
     THEN /\ op' = Raised("delete_collection", source)
          /\ UNCHANGED <<collections, chroma>>
     ELSE LET again == op.name = "delete_collection" /\ op.source = source
          IN /\ chroma' = ClientGetOrCreate(ClientDelete(chroma, CollectionName(source)),
                                            CollectionName(source))
             /\ collections' = [collections EXCEPT ![source] = <<>>]
             /\ op' = [Returned("delete_collection", source) EXCEPT
                  !.repeat = IF again THEN op.repeat + 1 ELSE 1,
                  !.cleared = (IF again THEN op.cleared ELSE 0) + Len(collections[source])]
  /\ UNCHANGED sq
  /\ UNCHANGED callVars
  /\ UNCHANGED queryVars

\* reset_all_collections: delete_collection for every key of self.collections
ResetAllCollections ==
  /\ collections' = [s \in DOMAIN collections |-> <<>>]
  /\ op' = Returned("reset_all_collections", None)
  /\ UNCHANGED <<chroma, sq>>
  /\ UNCHANGED callVars
  /\ UNCHANGED queryVars

\* DELETE /api/collections/{source}: 400 for a source that is not
\* configured; otherwise the handler calls vector_store.reset_collection,
\* an attribute VectorStore does not have, and the AttributeError is answered
\* with 500
ApiResetCollection(source) ==
  /\ op' = [Returned("api_reset_collection", source) EXCEPT
       !.raised = source \in SourceKeys,
       !.status = IF source \notin SourceKeys THEN 400 ELSE 500]
  /\ UNCHANGED <<chroma, collections, sq>>
  /\ UNCHANGED callVars
  /\ UNCHANGED queryVars

\* A caller asks for the single best fragment of one source
SearchRequest(source) ==
  /\ sq.state # "ready"
  /\ sq' = [state |-> "ready", source |-> source, top_k |-> <<1>>,
            answers |-> <<>>, result |-> <<>>]
  /\ UNCHANGED <<chroma, op, collections>>
  /\ UNCHANGED callVars
  /\ UNCHANGED queryVars

\* The store over a new persist directory
InitStore ==
  /\ collections = Populated([s \in SourceKeys |-> 0])
  /\ sq = IdleSq
  /\ conf = IdleConf
  /\ pdf = IdlePdf
  /\ ck = IdleCk
  /\ InitVectorStore
  /\ InitMemory

\* Documents whose metadata names the collection they are added to
TaggedLists(source) ==
  {d \in SeqsUpTo({[msource |-> source]}, MaxDocs) : d # <<>>}

\* Up to MaxStoreOps calls of the store, with searches of one collection in
\* between
StoreCall ==
  \/ \E source \in StoreSources : \E documents \in TaggedLists(source) :
       AddDocuments(documents, source)
  \/ \E source \in StoreSources : DeleteCollection(source)
  \/ ResetAllCollections
  \/ \E source \in StoreSources : ApiResetCollection(source)

NextStore ==
  \/ op.n < MaxStoreOps /\ StoreCall
  \/ \E source \in SourceKeys : SearchRequest(source)
  \/ SearchCall

SpecStore == InitStore /\ [][NextStore]_vars

\* Up to MaxIngestOps ingestions, additions with any metadata and resets
IngestCall ==
  \/ \E source \in StoreSources, additional \in {None} \cup MetaSources,
        nchunks \in 0..MaxDocs, parsed \in BOOLEAN :
       \E fail_at \in 0..nchunks :
         /\ parsed \/ fail_at = 0
         /\ IngestDocument(source, additional, nchunks, parsed, fail_at)
  \/ \E source \in StoreSources, documents \in DocumentLists : AddDocuments(documents, source)
  \/ \E source \in StoreSources : DeleteCollection(source)

NextIngest == op.n < MaxIngestOps /\ IngestCall

SpecIngest == InitStore /\ [][NextIngest]_vars

\* ------------------------------------------------------------------------
\* ingest_document_file and DocumentProcessor.extract_text_from_pdf
\* ------------------------------------------------------------------------
\* A file name is the sequence of its characters
\* str.lower() of a character of the file names below
LowerChar(c) ==
  CASE c = "C" -> "c"
    [] c = "E" -> "e"
    [] c = "N" -> "n"
    [] c = "W" -> "w"
    [] OTHER -> c

\* filename.lower()
LowerName(filename) == [i \in 1..Len(filename) |-> LowerChar(filename[i])]

\* needle in text
Contains(needle, text) ==
  \E i \in 0..(Len(text) - Len(needle)) :
    SubSeq(text, i + 1, i + Len(needle)) = needle

\* "nec" in filename.lower() or "code" in filename.lower()
NamedLikeNec(filename) ==
  \/ Contains(<<"n", "e", "c">>, LowerName(filename))
  \/ Contains(<<"c", "o", "d", "e">>, LowerName(filename))

\* NEC.pdf, codes.pdf, Watt.pdf, connect.pdf, manual.pdf
Filenames ==
  {<<"N", "E", "C", ".", "p", "d", "f">>,
   <<"c", "o", "d", "e", "s", ".", "p", "d", "f">>,
   <<"W", "a", "t", "t", ".", "p", "d", "f">>,
   <<"c", "o", "n", "n", "e", "c", "t", ".", "p", "d", "f">>,
   <<"m", "a", "n", "u", "a", "l", ".", "p", "d", "f">>}

\* len(pdf_reader.pages): none, one, around the limit, up to MaxExtraPages
\* over it
PageCounts ==
  {0, 1, NEC_MAX_PAGES - 1, NEC_MAX_PAGES} \cup
  {NEC_MAX_PAGES + i : i \in 1..MaxExtraPages}

\* ingest_document_file(file_path, source) down to the start of the page loop
\* of extract_text_from_pdf(file_content, filename): the source goes into the
\* metadata, the page limit is derived from the file name
IngestDocumentFile(source, filename, total_pages) ==
  /\ pdf.state \in {"idle", "done"}
  /\ pdf' = [state |-> "pages", source |-> source, filename |-> filename,
             total_pages |-> total_pages,
             max_pages_processed |-> IF source = "NEC" THEN "NEC_MAX_PAGES" ELSE "all",
             max_pages |-> IF NamedLikeNec(filename)
                           THEN Min(NEC_MAX_PAGES, total_pages)
                           ELSE total_pages,
             page_num |-> 0,
             extracted |-> 0]
  /\ UNCHANGED <<ck, conf, chroma, op, collections, sq>>
  /\ UNCHANGED queryVars

\* One round of the page loop: page.extract_text() of the next page
ExtractPage ==
  /\ pdf.state = "pages"
  /\ pdf.page_num < pdf.total_pages
  /\ pdf.page_num < pdf.max_pages
  /\ pdf' = [pdf EXCEPT !.page_num = @ + 1, !.extracted = @ + 1]
  /\ UNCHANGED <<ck, conf, chroma, op, collections, sq>>
  /\ UNCHANGED queryVars

\* The loop ends: the pages are exhausted or page_num >= max_pages
ExtractReturn ==
  /\ pdf.state = "pages"
  /\ pdf.page_num >= pdf.total_pages \/ pdf.page_num >= pdf.max_pages
  /\ pdf' = [pdf EXCEPT !.state = "done"]
  /\ UNCHANGED <<ck, conf, chroma, op, collections, sq>>
  /\ UNCHANGED queryVars

InitExtract == InitStore

NextExtract ==
  \/ \E source \in SourceKeys, filename \in Filenames, total_pages \in PageCounts :
       IngestDocumentFile(source, filename, total_pages)
  \/ ExtractPage
  \/ ExtractReturn

SpecExtract == InitExtract /\ [][NextExtract]_vars

\* ------------------------------------------------------------------------
\* chunk_text of app/ingest.py
\* ------------------------------------------------------------------------
\* A text of n characters; the k-th character is named k, so that every
\* character of a chunk tells its place in the text
TextOf(n) == [k \in 1..n |-> k]

\* The place a slice bound x takes in a sequence of n items: a negative
\* bound counts from the end, and both ends are clamped
SliceBound(x, n) ==
  IF x < 0 THEN (IF x + n < 0 THEN 0 ELSE x + n)
  ELSE Min(x, n)

\* text[i:j]
Slice(text, i, j) ==
  LET lo == SliceBound(i, Len(text))
      hi == SliceBound(j, Len(text))
  IN IF lo < hi THEN SubSeq(text, lo + 1, hi) ELSE <<>>

\* The loop is followed for at most MaxChunkSteps rounds, more than any
\* terminating call on a text of MaxTextLen characters takes
MaxChunkSteps == MaxTextLen + 2

\* chunk_text(text, max_chars, overlap): chunks = [], i = 0
ChunkText(text, max_chars, overlap) ==
  /\ ck.state = "idle"
  /\ ck' = [state |-> "loop", text |-> text, max_chars |-> max_chars,
            overlap |-> overlap, i |-> 0, chunks |-> <<>>]
  /\ UNCHANGED <<pdf, conf, chroma, op, collections, sq>>
  /\ UNCHANGED queryVars

\* A round that moves on by max_chars, without the overlap
ChunkStepNoOverlap ==
  /\ ck.state = "loop"
  /\ ck.i < Len(ck.text)
  /\ Len(ck.chunks) < MaxChunkSteps
  /\ ck' = [ck EXCEPT
       !.chunks = Append(@, Slice(ck.text, ck.i, ck.i + ck.max_chars)),
       !.i = @ + ck.max_chars]
  /\ UNCHANGED <<pdf, conf, chroma, op, collections, sq>>
  /\ UNCHANGED queryVars

\* One round of `while i < len(text)`: append text[i:i+max_chars],
\* i += max_chars - overlap
ChunkStep ==
  /\ ck.state = "loop"
  /\ ck.i < Len(ck.text)
  /\ Len(ck.chunks) < MaxChunkSteps
  /\ ck' = [ck EXCEPT
       !.chunks = Append(@, Slice(ck.text, ck.i, ck.i + ck.max_chars)),
       !.i = @ + ck.max_chars - ck.overlap]
  /\ UNCHANGED <<pdf, conf, chroma, op, collections, sq>>
  /\ UNCHANGED queryVars

\* The loop condition is false: return chunks
ChunkReturn ==
  /\ ck.state = "loop"
  /\ ~(ck.i < Len(ck.text))
  /\ ck' = [ck EXCEPT !.state = "done"]
  /\ UNCHANGED <<pdf, conf, chroma, op, collections, sq>>
  /\ UNCHANGED queryVars

InitChunk == InitStore

NextChunk ==
  \/ \E n \in 0..MaxTextLen, max_chars \in (-1)..MaxMaxChars, overlap \in 0..MaxMaxChars :
       ChunkText(TextOf(n), max_chars, overlap)
  \/ ChunkStep
  \/ ChunkReturn

\* A call that has started goes on: the loop is straight-line code of one
\* thread
SpecChunk ==
  InitChunk /\ [][NextChunk]_vars /\ WF_vars(ChunkStep) /\ WF_vars(ChunkReturn)

\* ------------------------------------------------------------------------
\* GeminiService
\* ------------------------------------------------------------------------
\* classify_intent: the validated answer of the model; "GENERAL" when the
\* answer is out of the set or the call raises
ClassifyIntent(outcome) ==
  IF outcome = "RAISE" THEN "GENERAL"
  ELSE IF outcome \notin {"NEC", "WATTMONK", "GENERAL"} THEN "GENERAL"
  ELSE outcome

\* str.capitalize() of a role
Capitalize(role) ==
  CASE role = "user" -> "User"
    [] role = "assistant" -> "Assistant"
    [] OTHER -> role

\* The line of the prompt for one message of the history
HistoryLine(msg) == <<Capitalize(msg.role), msg.content>>

\* A history section that shows every message of the list
PromptHistoryAll(history) == [i \in 1..Len(history) |-> HistoryLine(history[i])]

\* The history section of _build_prompt: conversation_history is None
\* (NoRef) or a list; a None or empty history adds nothing
PromptHistory(history) ==
  IF history = <<>> THEN <<>>
  ELSE LET shown == LastN(history, PromptTurns)
       IN [i \in 1..Len(shown) |-> HistoryLine(shown[i])]

BuildPrompt(query, context, history) ==
  [history |-> PromptHistory(history), context |-> context, query |-> query]

\* ------------------------------------------------------------------------
\* RAGService helpers
\* ------------------------------------------------------------------------
\* A context that holds a placeholder block when nothing was retrieved
PrepareContextPlaceholder(relevant_docs) ==
  IF relevant_docs = <<>>
  THEN <<[n |-> 1, source |-> "Unknown", score |-> 0, content |-> 0]>>
  ELSE [i \in 1..Len(relevant_docs) |->
          [n |-> i, source |-> relevant_docs[i].source,
           score |-> relevant_docs[i].score, content |-> relevant_docs[i].content]]

\* _prepare_context: the numbered blocks, in the order of relevant_docs
PrepareContext(relevant_docs) ==
  [i \in 1..Len(relevant_docs) |->
     [n |-> i, source |-> relevant_docs[i].source,
      score |-> relevant_docs[i].score, content |-> relevant_docs[i].content]]

\* Source summaries in the reverse order of relevant_docs
FormatSourcesReversed(relevant_docs) ==
  [i \in 1..Len(relevant_docs) |->
     [source |-> relevant_docs[Len(relevant_docs) + 1 - i].source,
      relevance_score |-> relevant_docs[Len(relevant_docs) + 1 - i].score,
      preview |-> relevant_docs[Len(relevant_docs) + 1 - i].content]]

\* _format_sources; the preview of a fragment of at most 200 characters is
\* its content
FormatSources(relevant_docs) ==
  [i \in 1..Len(relevant_docs) |->
     [source |-> relevant_docs[i].source,
      relevance_score |-> relevant_docs[i].score,
      preview |-> relevant_docs[i].content]]

\* round(x, 2) of a value given in thousandths, in hundredths: to the
\* nearest hundredth, a tie to the even one
Round2(m) ==
  LET q == m \div 10
      r == m % 10
  IN IF r < 5 THEN q
     ELSE IF r > 5 THEN q + 1
     ELSE IF q % 2 = 0 THEN q ELSE q + 1

\* A confidence whose document count factor is not capped by min(..., 1.0)
CalculateConfidenceUncapped(relevant_docs) ==
  IF relevant_docs = <<>> THEN 0
  ELSE LET top_score == relevant_docs[1].score
           doc_count_factor == (One * Len(relevant_docs)) \div TOP_K_RESULTS
       IN Round2(top_score * 7 + doc_count_factor * 3)

\* _calculate_confidence_score, in hundredths
CalculateConfidenceScore(relevant_docs) ==
  IF relevant_docs = <<>> THEN 0
  ELSE LET top_score == relevant_docs[1].score
           doc_count_factor == Min((One * Len(relevant_docs)) \div TOP_K_RESULTS, One)
       IN Round2(top_score * 7 + doc_count_factor * 3)

\* A lookup that hands out the list of some session, whatever the id
GetSomeHistory(session_id) ==
  IF DOMAIN conversation_memory = {} THEN NoRef
  ELSE conversation_memory[CHOOSE s \in DOMAIN conversation_memory : TRUE]

\* A lookup that finds no history for any session
GetNoHistory(session_id) == NoRef

\* _get_conversation_history: the list object of the session, or None
GetConversationHistory(session_id) ==
  IF session_id = NoSid \/ session_id \notin DOMAIN conversation_memory
  THEN NoRef
  ELSE conversation_memory[session_id]

\* Reference counting: a list no dictionary entry and no local variable
\* refers to is freed
LiveRefs(memory, locals) ==
  {memory[s] : s \in DOMAIN memory}
    \cup {locals[t].conversation : t \in Threads}
    \cup {locals[t].conversation_history : t \in Threads}
Collected(h, memory, locals) ==
  [r \in DOMAIN h \cap LiveRefs(memory, locals) |-> h[r]]

\* The content of a list reference as generate_response reads it
Deref(ref) == IF ref = NoRef THEN <<>> ELSE heap[ref]

UserTurn(q) == [role |-> "user", content |-> q]
AssistantTurn(r) == [role |-> "assistant", content |-> r]

\* The text of query number n, and the text generated in answer to it
Query(n) == <<"query", n>>
Answer(n) == <<"answer", n>>
NoResponse == <<"none", 0>>

\* The queries whose turns were appended for a session so far, in order
Logged(sid) == IF sid \in DOMAIN appended THEN appended[sid] ELSE <<>>

\* ------------------------------------------------------------------------
\* RAGService.query, one action per step of a thread t
\* ------------------------------------------------------------------------
SetLoc(t, r) == loc' = [loc EXCEPT ![t] = r]

\* The call: the arguments, and the session id generated when none is given.
\* cap bounds the number of calls; sids, filters and topks are the arguments
\* drawn.  The worker threads are interchangeable: a request is taken by
\* the first idle one.
Start(t, cap, sids, filters, topks) ==
  /\ pc[t] = "idle"
  /\ \A u \in Threads : u < t => pc[u] # "idle"
  /\ nqueries < cap
  /\ nqueries' = nqueries + 1
  /\ \E sid \in sids, f \in filters, k \in topks :
       /\ uuid_count' = IF sid = NoSid THEN uuid_count + 1 ELSE uuid_count
       /\ SetLoc(t, [IdleLoc EXCEPT
            !.session_id = IF sid = NoSid THEN FreshSessionId(uuid_count) ELSE sid,
            !.arg_session_id = sid,
            !.qn = nqueries + 1,
            !.arg_filter = f,
            !.source_filter = f,
            !.top_k = k])
  /\ pc' = [pc EXCEPT ![t] = "intent"]
  /\ UNCHANGED <<ck, pdf, conf, chroma, op, collections, sq, conversation_memory, heap, appended>>

\* An intent step that ends the query when the classifier raises or answers
\* out of the set
ResolveIntentStrict(t) ==
  /\ pc[t] = "intent"
  /\ IF Truthy(loc[t].source_filter)
     THEN UNCHANGED loc /\ pc' = [pc EXCEPT ![t] = "embed"]
     ELSE \E outcome \in ClassifierOutcomes :
            /\ SetLoc(t, [loc[t] EXCEPT
                 !.classifier = outcome,
                 !.calls.classify = @ + 1,
                 !.source_filter = IF outcome \in SourceKeys THEN outcome ELSE None])
            /\ pc' = [pc EXCEPT ![t] =
                 IF outcome \in {"NEC", "WATTMONK", "GENERAL"} THEN "embed" ELSE "failed"]
  /\ UNCHANGED <<ck, pdf, conf, chroma, op, collections, sq, conversation_memory, heap, uuid_count, nqueries, appended>>

\* if not source_filter: classify_intent, and the filter derived from it
ResolveIntent(t) ==
  /\ pc[t] = "intent"
  /\ IF Truthy(loc[t].source_filter)
     THEN UNCHANGED loc
     ELSE \E outcome \in ClassifierOutcomes :
            LET intent == ClassifyIntent(outcome)
            IN SetLoc(t, [loc[t] EXCEPT
                 !.classifier = outcome,
                 !.calls.classify = @ + 1,
                 !.source_filter = IF intent \in SourceKeys THEN intent ELSE None])
  /\ pc' = [pc EXCEPT ![t] = "embed"]
  /\ UNCHANGED <<ck, pdf, conf, chroma, op, collections, sq, conversation_memory, heap, uuid_count, nqueries, appended>>

\* An embedding step that calls generate_query_embedding again when it raises
EmbedQueryRetry(t) ==
  /\ pc[t] = "embed"
  /\ loc[t].calls.embed < 2
  /\ \E ok \in BOOLEAN : pc' = [pc EXCEPT ![t] = IF ok THEN "search" ELSE "embed"]
  /\ SetLoc(t, [loc[t] EXCEPT !.calls.embed = @ + 1])
  /\ UNCHANGED <<ck, pdf, conf, chroma, op, collections, sq, conversation_memory, heap, uuid_count, nqueries, appended>>

\* generate_query_embedding returns a vector or raises
EmbedQuery(t) ==
  /\ pc[t] = "embed"
  /\ \E ok \in BOOLEAN : pc' = [pc EXCEPT ![t] = IF ok THEN "search" ELSE "failed"]
  /\ SetLoc(t, [loc[t] EXCEPT !.calls.embed = @ + 1])
  /\ UNCHANGED <<ck, pdf, conf, chroma, op, collections, sq, conversation_memory, heap, uuid_count, nqueries, appended>>

\* A search that takes the oldest fragment out of every collection it queries
SearchConsuming(t) ==
  /\ pc[t] = "search"
  /\ LET keys == CollectionsToSearch(loc[t].source_filter)
         k == <<EffectiveTopK(loc[t].top_k)>>
     IN /\ \E a \in AnswersFor(collections, keys, k[1]) :
             LET docs == SearchSimilar(a, loc[t].source_filter, k)
             IN SetLoc(t, [loc[t] EXCEPT
                  !.searched = {keys[i] : i \in 1..Len(keys)},
                  !.calls.search = @ + 1,
                  !.relevant_docs = docs,
                  !.context = PrepareContext(docs)])
        /\ collections' = [s \in DOMAIN collections |->
             IF s \in {keys[i] : i \in 1..Len(keys)} /\ collections[s] # <<>>
             THEN Tail(collections[s]) ELSE collections[s]]
  /\ pc' = [pc EXCEPT ![t] = "history"]
  /\ UNCHANGED <<ck, pdf, conf, chroma, op, sq, conversation_memory, heap, uuid_count, nqueries, appended>>

\* search_similar(query_embedding, source_filter, top_k or TOP_K_RESULTS)
\* and _prepare_context
Search(t) ==
  /\ pc[t] = "search"
  /\ LET keys == CollectionsToSearch(loc[t].source_filter)
         k == <<EffectiveTopK(loc[t].top_k)>>
     IN \E a \in AnswersFor(collections, keys, k[1]) :
          LET docs == SearchSimilar(a, loc[t].source_filter, k)
          IN SetLoc(t, [loc[t] EXCEPT
               !.searched = {keys[i] : i \in 1..Len(keys)},
               !.calls.search = @ + 1,
               !.relevant_docs = docs,
               !.context = PrepareContext(docs)])
  /\ pc' = [pc EXCEPT ![t] = "history"]
  /\ UNCHANGED <<ck, pdf, conf, chroma, op, collections, sq, conversation_memory, heap, uuid_count, nqueries, appended>>

\* _get_conversation_history(session_id)
ReadHistory(t) ==
  /\ pc[t] = "history"
  /\ SetLoc(t, [loc[t] EXCEPT !.conversation_history = GetConversationHistory(loc[t].session_id)])
  /\ pc' = [pc EXCEPT ![t] = "generate"]
  /\ UNCHANGED <<ck, pdf, conf, chroma, op, collections, sq, conversation_memory, heap, uuid_count, nqueries, appended>>

\* A generation step that goes on to the memory update when generate_content
\* has raised
GenerateSwallow(t) ==
  /\ pc[t] = "generate"
  /\ \E ok \in BOOLEAN :
       /\ SetLoc(t, [loc[t] EXCEPT
            !.prompt = IF ok
                       THEN BuildPrompt(Query(loc[t].qn), loc[t].context,
                                        Deref(loc[t].conversation_history))
                       ELSE NoPrompt,
            !.response = IF ok THEN Answer(loc[t].qn) ELSE NoResponse,
            !.calls.generate = @ + 1])
       /\ pc' = [pc EXCEPT ![t] = "upd_check"]
  /\ UNCHANGED <<ck, pdf, conf, chroma, op, collections, sq, conversation_memory, heap, uuid_count, nqueries, appended>>

\* generate_response: the prompt is built from the history list as it is
\* now and sent; generate_content answers or raises
Generate(t) ==
  /\ pc[t] = "generate"
  /\ \E ok \in BOOLEAN :
       /\ SetLoc(t, [loc[t] EXCEPT
            !.prompt = IF ok
                       THEN BuildPrompt(Query(loc[t].qn), loc[t].context,
                                        Deref(loc[t].conversation_history))
                       ELSE NoPrompt,
            !.response = IF ok THEN Answer(loc[t].qn) ELSE NoResponse,
            !.calls.generate = @ + 1])
       /\ pc' = [pc EXCEPT ![t] =
            IF ~ok THEN "failed"
            ELSE IF loc[t].session_id # NoSid THEN "upd_check" ELSE "result"]
  /\ UNCHANGED <<ck, pdf, conf, chroma, op, collections, sq, conversation_memory, heap, uuid_count, nqueries, appended>>

\* _update_conversation_memory, statement by statement; the prompt, a local
\* of generate_response, is gone by now, and the locals of the update are
\* gone when it returns
\* if session_id not in self.conversation_memory
UpdCheck(t) ==
  /\ pc[t] = "upd_check"
  /\ pc' = [pc EXCEPT ![t] =
       IF loc[t].session_id \notin DOMAIN conversation_memory THEN "upd_create" ELSE "upd_get"]
  /\ SetLoc(t, [loc[t] EXCEPT !.prompt = NoPrompt])
  /\ UNCHANGED <<ck, pdf, conf, chroma, op, collections, sq, conversation_memory, heap, uuid_count, nqueries, appended>>

\* self.conversation_memory[session_id] = []
UpdCreate(t) ==
  /\ pc[t] = "upd_create"
  /\ conversation_memory' = DictSet(conversation_memory, loc[t].session_id, NewList(loc[t].qn))
  /\ heap' = Collected(DictSet(heap, NewList(loc[t].qn), <<>>), conversation_memory', loc)
  /\ pc' = [pc EXCEPT ![t] = "upd_get"]
  /\ UNCHANGED <<ck, pdf, conf, chroma, op, collections, sq, uuid_count, nqueries, appended, loc>>

\* conversation = self.conversation_memory[session_id]
UpdGet(t) ==
  /\ pc[t] = "upd_get"
  /\ SetLoc(t, [loc[t] EXCEPT !.conversation = conversation_memory[loc[t].session_id]])
  /\ pc' = [pc EXCEPT ![t] = "upd_user"]
  /\ UNCHANGED <<ck, pdf, conf, chroma, op, collections, sq, conversation_memory, heap, uuid_count, nqueries, appended>>

\* conversation.append({"role": "user", "content": query})
UpdAppendUser(t) ==
  /\ pc[t] = "upd_user"
  /\ heap' = [heap EXCEPT ![loc[t].conversation] = Append(@, UserTurn(Query(loc[t].qn)))]
  /\ appended' = DictSet(appended, loc[t].session_id,
                         Append(Logged(loc[t].session_id), loc[t].qn))
  /\ pc' = [pc EXCEPT ![t] = "upd_assistant"]
  /\ UNCHANGED <<ck, pdf, conf, chroma, op, collections, sq, conversation_memory, uuid_count, nqueries, loc>>

\* conversation.append({"role": "assistant", "content": response})
UpdAppendAssistant(t) ==
  /\ pc[t] = "upd_assistant"
  /\ heap' = [heap EXCEPT ![loc[t].conversation] = Append(@, AssistantTurn(loc[t].response))]
  /\ pc' = [pc EXCEPT ![t] = "upd_len"]
  /\ UNCHANGED <<ck, pdf, conf, chroma, op, collections, sq, conversation_memory, uuid_count, nqueries, appended, loc>>

\* if len(conversation) > 10
UpdLen(t) ==
  /\ pc[t] = "upd_len"
  /\ IF Len(heap[loc[t].conversation]) > MaxTurns
     THEN /\ pc' = [pc EXCEPT ![t] = "upd_slice"]
          /\ UNCHANGED <<loc, heap>>
     ELSE /\ pc' = [pc EXCEPT ![t] = "result"]
          /\ SetLoc(t, [loc[t] EXCEPT !.conversation = NoRef])
          /\ heap' = Collected(heap, conversation_memory, loc')
  /\ UNCHANGED <<ck, pdf, conf, chroma, op, collections, sq, conversation_memory, uuid_count, nqueries, appended>>

\* A truncation that keeps one turn less than the window
UpdSliceOdd(t) ==
  /\ pc[t] = "upd_slice"
  /\ SetLoc(t, [loc[t] EXCEPT !.sliced = LastN(heap[loc[t].conversation], MaxTurns - 1)])
  /\ pc' = [pc EXCEPT ![t] = "upd_store"]
  /\ UNCHANGED <<ck, pdf, conf, chroma, op, collections, sq, conversation_memory, heap, uuid_count, nqueries, appended>>

\* conversation[-10:]
UpdSlice(t) ==
  /\ pc[t] = "upd_slice"
  /\ SetLoc(t, [loc[t] EXCEPT !.sliced = LastN(heap[loc[t].conversation], MaxTurns)])
  /\ pc' = [pc EXCEPT ![t] = "upd_store"]
  /\ UNCHANGED <<ck, pdf, conf, chroma, op, collections, sq, conversation_memory, heap, uuid_count, nqueries, appended>>

\* self.conversation_memory[session_id] = <the slice>
UpdStore(t) ==
  /\ pc[t] = "upd_store"
  /\ conversation_memory' = DictSet(conversation_memory, loc[t].session_id, SliceList(loc[t].qn))
  /\ SetLoc(t, [loc[t] EXCEPT !.conversation = NoRef, !.sliced = <<>>])
  /\ heap' = Collected(DictSet(heap, SliceList(loc[t].qn), loc[t].sliced), conversation_memory', loc')
  /\ pc' = [pc EXCEPT ![t] = "result"]
  /\ UNCHANGED <<ck, pdf, conf, chroma, op, collections, sq, uuid_count, nqueries, appended>>

\* The result dictionary
BuildResult(t) ==
  /\ pc[t] = "result"
  /\ SetLoc(t, [loc[t] EXCEPT !.result =
       [answer |-> loc[t].response,
        sources |-> FormatSources(loc[t].relevant_docs),
        context_used |-> Len(loc[t].relevant_docs),
        intent_classification |->
          IF Truthy(loc[t].source_filter) THEN loc[t].source_filter ELSE "GENERAL",
        confidence_score |-> CalculateConfidenceScore(loc[t].relevant_docs),
        session_id |-> loc[t].session_id]])
  /\ pc' = [pc EXCEPT ![t] = "done"]
  /\ UNCHANGED <<ck, pdf, conf, chroma, op, collections, sq, conversation_memory, heap, uuid_count, nqueries, appended>>

\* The call has returned (or raised); the thread takes the next request
Return(t) ==
  /\ pc[t] \in {"done", "failed"}
  /\ pc' = [pc EXCEPT ![t] = "idle"]
  /\ SetLoc(t, IdleLoc)
  /\ heap' = Collected(heap, conversation_memory, loc')
  /\ UNCHANGED <<ck, pdf, conf, chroma, op, collections, sq, conversation_memory, uuid_count, nqueries, appended>>

Step(t) ==
  \/ ResolveIntent(t)
  \/ EmbedQuery(t)
  \/ Search(t)
  \/ ReadHistory(t)
  \/ Generate(t)
  \/ UpdCheck(t)
  \/ UpdCreate(t)
  \/ UpdGet(t)
  \/ UpdAppendUser(t)
  \/ UpdAppendAssistant(t)
  \/ UpdLen(t)
  \/ UpdSlice(t)
  \/ UpdStore(t)
  \/ BuildResult(t)
  \/ Return(t)

\* Sequential pipeline over populated collections: one query at a time
\* (the API handlers are coroutines that call query without awaiting).  The
\* service starts as constructed, or with a session that earlier queries
\* have filled up to its window.
Init ==
  /\ collections \in {Populated(sz) : sz \in [SourceKeys -> 0..1]}
  /\ sq = IdleSq
  /\ conf = IdleConf
  /\ pdf = IdlePdf
  /\ ck = IdleCk
  /\ InitVectorStore
  /\ \E npairs \in {0, MaxTurns \div 2} : InitMemoryAfter(npairs)

SeqStart(t) == AllIdle /\ Start(t, MaxPipeQueries, {<<"caller", 1>>, NoSid}, FilterArgs, TopKArgs)

Next == \E t \in Threads : SeqStart(t) \/ Step(t)

Spec == Init /\ [][Next]_vars

\* Sequential queries over empty collections, enough of them for a session
\* to outgrow its window
InitMem ==
  /\ collections = Populated([s \in SourceKeys |-> 0])
  /\ sq = IdleSq
  /\ conf = IdleConf
  /\ pdf = IdlePdf
  /\ ck = IdleCk
  /\ InitVectorStore
  /\ InitMemory

MemStart(t) == AllIdle /\ Start(t, MaxQueries, {<<"caller", 1>>, NoSid}, {"NEC"}, {<<>>})

NextMem == \E t \in Threads : MemStart(t) \/ Step(t)

SpecMem == InitMem /\ [][NextMem]_vars

\* Sequential queries with calls of the store between them: a query starts
\* when no other runs, a store call is made when no query runs.  The service
\* starts as constructed, or with a session that earlier queries have filled
\* up to its window.
InitFrame ==
  /\ collections = Populated([s \in SourceKeys |-> 0])
  /\ sq = IdleSq
  /\ conf = IdleConf
  /\ pdf = IdlePdf
  /\ ck = IdleCk
  /\ InitVectorStore
  /\ \E npairs \in {0, MaxTurns \div 2} : InitMemoryAfter(npairs)

FrameStart(t) == AllIdle /\ Start(t, MaxFrameQueries, {<<"caller", 1>>}, {"NEC"}, {<<1>>})

FrameStore == AllIdle /\ op.n < MaxFrameOps /\ StoreCall

NextFrame == FrameStore \/ \E t \in Threads : FrameStart(t) \/ Step(t)

SpecFrame == InitFrame /\ [][NextFrame]_vars

\* Concurrent queries: the threads interleave statement by statement.  The
\* service starts with one session that earlier sequential queries have
\* filled up to its window; the other session is new.
InitConc ==
  /\ collections = Populated([s \in SourceKeys |-> 0])
  /\ sq = IdleSq
  /\ conf = IdleConf
  /\ pdf = IdlePdf
  /\ ck = IdleCk
  /\ InitVectorStore
  /\ InitMemoryAfter(MaxTurns \div 2)

ConcStart(t) == Start(t, MaxConcQueries, CallerSids, {"NEC"}, {<<>>})

NextConc == \E t \in Threads : ConcStart(t) \/ Step(t)

SpecConc == InitConc /\ [][NextConc]_vars

\* ------------------------------------------------------------------------
\* A direct call of RAGService._calculate_confidence_score
\* ------------------------------------------------------------------------
\* Scores (hundredths) of the results handed to the call.  round(x, 2) of a
\* float whose decimal expansion ends in 5 depends on its binary
\* representation; no score here leads to such a value.
ConfScores == {0 - 100, 33, 88, 90, 100}

\* The lists search_similar may return for a per-call top_k of k: at most k
\* results, sorted by score in descending order
ResultLists(k) ==
  {[i \in 1..Len(sc) |-> [content |-> i, source |-> "NEC", score |-> sc[i]]] :
     sc \in {q \in SeqsUpTo(ConfScores, k) : \A i \in 1..Len(q) - 1 : q[i] >= q[i + 1]}}

ConfidenceCall ==
  /\ conf.state = "ready"
  /\ conf' = [conf EXCEPT !.state = "done",
                          !.confidence = CalculateConfidenceScore(conf.relevant_docs)]
  /\ UNCHANGED <<ck, pdf, chroma, op, collections, sq, conversation_memory, heap,
                 uuid_count, nqueries, appended, pc, loc>>

InitConf ==
  /\ \E k \in 1..MaxConfTopK :
       conf \in {[state |-> "ready", top_k |-> k, relevant_docs |-> docs, confidence |-> 0] :
                  docs \in ResultLists(k)}
  /\ collections = Populated([s \in SourceKeys |-> 0])
  /\ sq = IdleSq
  /\ pdf = IdlePdf
  /\ ck = IdleCk
  /\ InitVectorStore
  /\ InitMemory

NextConf == ConfidenceCall

SpecConf == InitConf /\ [][NextConf]_vars

\* ========================================================================
\* Properties of VectorStore.search_similar (SpecSearch)
\* ========================================================================
SearchDone == sq.state = "done"
NoSourceFilter == sq.source = None
SearchedKeys == DOMAIN sq.answers
FailedKeys == {s \in SearchedKeys : ~sq.answers[s].ok}

\* The rows the backend reported, as (collection, row number) pairs, and
\* the place of a pair in the order the rows were collected
Candidates ==
  {<<s, i>> : s \in SearchedKeys \ FailedKeys, i \in 1..MaxDocs + TOP_K_RESULTS} \cap
  UNION {{<<s, i>> : i \in 1..Len(sq.answers[s].rows)} : s \in SearchedKeys}
SourcePosition(s) == CHOOSE p \in 1..Len(DOCUMENT_SOURCES) : DOCUMENT_SOURCES[p] = s
Earlier(c, d) ==
  \/ SourcePosition(c[1]) < SourcePosition(d[1])
  \/ c[1] = d[1] /\ c[2] < d[2]
CandidateScore(c) == One - sq.answers[c[1]].rows[c[2]].dist

\* The row a result was made from
IsRowOf(r, c) ==
  /\ r.source = c[1]
  /\ r.content = sq.answers[c[1]].rows[c[2]].doc.id
  /\ r.score = CandidateScore(c)
RowOf(r) == CHOOSE c \in Candidates : IsRowOf(r, c)

ResultsAreRows == \A i \in 1..Len(sq.result) : \E c \in Candidates : IsRowOf(sq.result[i], c)
SortedDescending ==
  \A i, j \in 1..Len(sq.result) : i < j => sq.result[i].score >= sq.result[j].score
TiesInCollectedOrder ==
  \A i, j \in 1..Len(sq.result) :
    (i < j /\ sq.result[i].score = sq.result[j].score)
      => Earlier(RowOf(sq.result[i]), RowOf(sq.result[j]))

\* C1: a search with no source filter returns at most top_k results, sorted
\* by score in descending order, results of equal score in the order they
\* were collected (collection order, then the order of the collection's rows).
C1_FederatedSearchSorted ==
  (SearchDone /\ NoSourceFilter) =>
    /\ Len(sq.result) <= EffectiveTopK(sq.top_k)
    /\ ResultsAreRows
    /\ SortedDescending
    /\ TiesInCollectedOrder

\* C1 witness: a truncated result with two results of equal score from
\* different collections next to one another
C1_Witness ==
  /\ SearchDone /\ NoSourceFilter
  /\ Len(sq.result) = EffectiveTopK(sq.top_k)
  /\ Cardinality(Candidates) > Len(sq.result)
  /\ \E i \in 1..Len(sq.result) - 1 :
       /\ sq.result[i].score = sq.result[i + 1].score
       /\ sq.result[i].source # sq.result[i + 1].source

\* C2: every result of search_similar has a score in [0, 1], for every
\* backend distance in [0, 2].
C2_ScoreInUnitInterval ==
  SearchDone => \A i \in 1..Len(sq.result) :
                  sq.result[i].score >= 0 /\ sq.result[i].score <= One

\* C3: when the query of every searched collection raises, search_similar
\* raises instead of returning a list.
C3_AllCollectionsFailRaises ==
  (sq.state \in {"done", "raised"} /\ FailedKeys = SearchedKeys) => sq.state = "raised"

\* C4: when some but not all searched collections raise, the call returns,
\* and returns exactly the best top_k rows of the collections that did not
\* raise, in sorted order; a failing collection contributes nothing.
C4_PartialFailureIsNotFatal ==
  (sq.state \in {"done", "raised"} /\ FailedKeys # {} /\ FailedKeys # SearchedKeys) =>
    /\ SearchDone
    /\ Len(sq.result) = Min(EffectiveTopK(sq.top_k), Cardinality(Candidates))
    /\ ResultsAreRows
    /\ \A i \in 1..Len(sq.result) : sq.result[i].source \notin FailedKeys
    /\ \A i, j \in 1..Len(sq.result) : i # j => RowOf(sq.result[i]) # RowOf(sq.result[j])
    /\ SortedDescending
    /\ TiesInCollectedOrder
    /\ \A c \in Candidates :
         (\A i \in 1..Len(sq.result) : RowOf(sq.result[i]) # c) =>
           \A i \in 1..Len(sq.result) :
             \/ sq.result[i].score > CandidateScore(c)
             \/ sq.result[i].score = CandidateScore(c) /\ Earlier(RowOf(sq.result[i]), c)

\* C4 witness: the first collection raises, the two others report rows, and
\* the result holds rows of both
C4_Witness ==
  /\ SearchDone
  /\ FailedKeys = {DOCUMENT_SOURCES[1]}
  /\ \E i, j \in 1..Len(sq.result) :
       sq.result[i].source = DOCUMENT_SOURCES[2] /\ sq.result[j].source = DOCUMENT_SOURCES[3]
  /\ Cardinality(Candidates) > Len(sq.result)

\* C22: search_similar with a source that is not a configured key behaves
\* as a call without source: it queries every configured collection for up
\* to top_k results, merges, sorts by score descending, truncates to top_k,
\* and returns.
C22_UnknownSourceSearchesAll ==
  (sq.state \in {"done", "raised"} /\ sq.source \notin SourceKeys \cup {None}) =>
    /\ SearchDone
    /\ SearchedKeys = SourceKeys
    /\ \A s \in SearchedKeys \ FailedKeys :
         Len(sq.answers[s].rows) = Min(EffectiveTopK(sq.top_k), Len(collections[s]))
    /\ sq.result = SearchSimilar(sq.answers, None, sq.top_k)
    /\ Len(sq.result) = Min(EffectiveTopK(sq.top_k), Cardinality(Candidates))
    /\ ResultsAreRows
    /\ SortedDescending

\* C22 witness: a search for the source "BOGUS" that returns fragments of
\* two collections and leaves out others
C22_Witness ==
  /\ SearchDone
  /\ sq.source = "BOGUS"
  /\ \E i, j \in 1..Len(sq.result) : sq.result[i].source # sq.result[j].source
  /\ Cardinality(Candidates) > Len(sq.result)

\* ========================================================================
\* Properties of RAGService.query and its conversation memory
\* ========================================================================
UpdatePcs == {"upd_check", "upd_create", "upd_get", "upd_user", "upd_assistant",
              "upd_len", "upd_slice", "upd_store"}
Quiescent == \A t \in Threads : pc[t] \notin UpdatePcs

\* The turns the memory holds for a session
TurnsOf(sid) ==
  IF sid \in DOMAIN conversation_memory THEN heap[conversation_memory[sid]] ELSE <<>>

\* C5: a query that fails (embedding, generation) raises and leaves the
\* conversation memory as it was: no step a query takes before its memory
\* update changes the memory, the update is entered only with the answer of
\* a successful generation, and no turn of a failed query is in any list.
C5_FailedQueryLeavesMemory ==
  /\ [](\A t \in Threads :
          /\ pc[t] \in UpdatePcs => loc[t].response = Answer(loc[t].qn)
          /\ pc[t] = "failed" =>
               \A r \in DOMAIN heap : \A i \in 1..Len(heap[r]) :
                 heap[r][i].content \notin {Query(loc[t].qn), Answer(loc[t].qn)})
  /\ [][\A t \in Threads :
          (pc'[t] # pc[t] /\ pc[t] \notin UpdatePcs) =>
             /\ conversation_memory' = conversation_memory
             /\ \A s \in DOMAIN conversation_memory :
                  heap'[conversation_memory[s]] = heap[conversation_memory[s]]]_vars

\* C5 witness: generation has raised for a query on a session that holds
\* the turns of an earlier query
C5_Witness ==
  \E t \in Threads :
    /\ pc[t] = "failed"
    /\ loc[t].conversation_history # NoRef
    /\ Len(TurnsOf(loc[t].session_id)) >= 2

\* The i-th turn of the pairs appended for the queries of log
TurnOfLog(log, i) ==
  IF i % 2 = 1
  THEN [role |-> "user", content |-> <<"query", log[(i + 1) \div 2]>>]
  ELSE [role |-> "assistant", content |-> <<"answer", log[i \div 2]>>]

\* C6: after any sequence of successful queries every session holds at
\* most 10 turns: the most recent min(10, 2n) turns of the n pairs appended
\* to it, in the order they were appended.
C6_WindowHoldsMostRecentTurns ==
  Quiescent =>
    /\ DOMAIN appended = DOMAIN conversation_memory
    /\ \A sid \in DOMAIN conversation_memory :
         LET log == appended[sid]
             n == Len(log)
             turns == heap[conversation_memory[sid]]
             m == IF 2 * n < 10 THEN 2 * n ELSE 10
         IN /\ Len(turns) <= 10
            /\ Len(turns) = m
            /\ \A j \in 1..m : turns[j] = TurnOfLog(log, 2 * n - m + j)

\* C6 witness: seven pairs were appended to one session, which holds 10 turns
C6_Witness ==
  /\ AllIdle
  /\ \E sid \in DOMAIN conversation_memory :
       Len(Logged(sid)) >= 7 /\ Len(TurnsOf(sid)) = 10

\* C7: the history in the prompt of a query is the last min(5, len) turns
\* its session held before the query's own append, oldest first; nothing for
\* a session the memory does not know.
C7_PromptShowsLastFiveTurns ==
  \A t \in Threads :
    pc[t] = "upd_check" =>
      LET turns == TurnsOf(loc[t].session_id)
          m == IF Len(turns) < 5 THEN Len(turns) ELSE 5
          shown == loc[t].prompt.history
      IN /\ Len(shown) = m
         /\ \A j \in 1..m :
              LET turn == turns[Len(turns) - m + j]
              IN shown[j] = <<IF turn.role = "user" THEN "User" ELSE "Assistant",
                              turn.content>>

\* C7 witness: a prompt of five history lines for a session of ten turns
C7_Witness ==
  \E t \in Threads :
    /\ pc[t] = "upd_check"
    /\ Len(TurnsOf(loc[t].session_id)) = 10
    /\ Len(loc[t].prompt.history) = 5

\* C8: appends of concurrent queries on one session are atomic: once all
\* queries have finished, the window holds, next to one another, the user
\* and the assistant turn of every append among the five most recent ones.
C8_ConcurrentAppendsAreAtomic ==
  AllIdle =>
    \A sid \in DOMAIN appended :
      LET log == appended[sid]
          turns == TurnsOf(sid)
      IN \A p \in 1..Len(log) :
           Len(log) - p < MaxTurns \div 2 =>
             \E i \in 1..Len(turns) - 1 :
               /\ turns[i] = UserTurn(Query(log[p]))
               /\ turns[i + 1] = AssistantTurn(Answer(log[p]))

\* The numbers of the queries whose turns were appended for a session
LoggedSet(sid) == {Logged(sid)[i] : i \in 1..Len(Logged(sid))}

\* The session of the query thread t runs, or starts in this step
SessionOfStep(t) == IF pc[t] = "idle" THEN loc'[t].session_id ELSE loc[t].session_id

\* C9: under any interleaving, a query on one session never adds, removes
\* or changes a turn of another session, and the history handed to a query
\* holds only turns appended by queries on its own session.
C9_SessionsAreIsolated ==
  /\ [](/\ \A s1, s2 \in DOMAIN conversation_memory :
             s1 # s2 => conversation_memory[s1] # conversation_memory[s2]
        /\ \A sid \in DOMAIN conversation_memory :
             \A i \in 1..Len(TurnsOf(sid)) : TurnsOf(sid)[i].content[2] \in LoggedSet(sid)
        /\ \A t \in Threads :
             \A j \in 1..Len(loc[t].prompt.history) :
               loc[t].prompt.history[j][2][2] \in LoggedSet(loc[t].session_id))
  /\ [][\A t \in Threads :
          pc'[t] # pc[t] =>
            /\ DOMAIN conversation_memory' \subseteq
                 DOMAIN conversation_memory \cup {SessionOfStep(t)}
            /\ \A s \in DOMAIN conversation_memory :
                 s # SessionOfStep(t) =>
                   /\ s \in DOMAIN conversation_memory'
                   /\ heap'[conversation_memory'[s]] = heap[conversation_memory[s]]]_vars

\* C9 witness: two threads inside the memory update, on different sessions
\* that both hold turns
C9_Witness ==
  \E t, u \in Threads :
    /\ pc[t] \in UpdatePcs /\ pc[u] \in UpdatePcs
    /\ loc[t].session_id # loc[u].session_id
    /\ Len(TurnsOf(loc[t].session_id)) > 0
    /\ Len(TurnsOf(loc[u].session_id)) > 0

\* C10: a query without source filter whose classification yields "GENERAL"
\* (classified so, out-of-set answer, or failure) searches every configured
\* collection and reports the intent "GENERAL".
C10_GeneralSearchesAllCollections ==
  \A t \in Threads :
    (/\ pc[t] = "done"
     /\ ~Truthy(loc[t].arg_filter)
     /\ loc[t].classifier \in {"GENERAL", "SOLAR", "RAISE"}) =>
      /\ loc[t].searched = SourceKeys
      /\ loc[t].result.intent_classification = "GENERAL"

\* C11: when the caller supplies a source filter that is a configured source
\* key, classify_intent is not called, only that collection is searched,
\* every returned result is tagged with that key, and the intent of the
\* result is the supplied filter.
C11_RecognizedFilterUsedVerbatim ==
  \A t \in Threads :
    (pc[t] = "done" /\ loc[t].arg_filter \in SourceKeys) =>
      /\ loc[t].classifier = "NOT_CALLED"
      /\ loc[t].calls.classify = 0
      /\ loc[t].searched = {loc[t].arg_filter}
      /\ \A i \in 1..Len(loc[t].relevant_docs) :
           loc[t].relevant_docs[i].source = loc[t].arg_filter
      /\ \A i \in 1..Len(loc[t].result.sources) :
           loc[t].result.sources[i].source = loc[t].arg_filter
      /\ loc[t].result.intent_classification = loc[t].arg_filter

\* C11 witness: a finished query with the filter "NEC" that found a fragment
C11_Witness ==
  \E t \in Threads :
    /\ pc[t] = "done"
    /\ loc[t].arg_filter = "NEC"
    /\ Len(loc[t].result.sources) >= 1

\* C12: whatever source filter the caller supplies, the intent of the result
\* is a configured source key or "GENERAL", and a filter that is not a
\* configured key is not used verbatim but goes through classification.
C12_IntentIsSourceKeyOrGeneral ==
  \A t \in Threads :
    pc[t] = "done" =>
      /\ loc[t].result.intent_classification \in SourceKeys \cup {"GENERAL"}
      /\ loc[t].arg_filter \notin SourceKeys => loc[t].classifier # "NOT_CALLED"

\* C13: a query without session id gets a non-empty id that is not a key of
\* the conversation memory, a query with a session id keeps it; the id does
\* not change while the query runs and is the one in the result.
C13_SessionIdFreshOrEchoed ==
  /\ [][\A t \in Threads :
          /\ (pc[t] = "idle" /\ pc'[t] # "idle") =>
               IF loc'[t].arg_session_id = NoSid
               THEN /\ loc'[t].session_id # NoSid
                    /\ loc'[t].session_id \notin DOMAIN conversation_memory
               ELSE loc'[t].session_id = loc'[t].arg_session_id
          /\ (pc[t] # "idle" /\ pc'[t] # "idle") =>
               /\ loc'[t].session_id = loc[t].session_id
               /\ loc'[t].arg_session_id = loc[t].arg_session_id]_vars
  /\ [](\A t \in Threads :
          pc[t] = "done" =>
            /\ loc[t].result.session_id = loc[t].session_id
            /\ loc[t].result.session_id # NoSid)

\* C13 witness: a finished query without session id, after an earlier one
\* whose generated id is in the memory
C13_Witness ==
  \E t \in Threads :
    /\ pc[t] = "done"
    /\ loc[t].arg_session_id = NoSid
    /\ \E n \in 1..MaxPipeQueries :
         Uuid(n) \in DOMAIN conversation_memory /\ Uuid(n) # loc[t].result.session_id

\* C14: the history handed to a query on a session holds the user and the
\* assistant turn of every earlier successful query on that session that
\* fewer than 5 successful queries on the session have followed.
C14_LaterQuerySeesEarlierTurns ==
  \A t \in Threads :
    pc[t] = "generate" =>
      LET log == Logged(loc[t].session_id)
          history == Deref(loc[t].conversation_history)
      IN \A p \in 1..Len(log) :
           Len(log) - p < MaxTurns \div 2 =>
             \E i \in 1..Len(history) - 1 :
               /\ history[i] = UserTurn(Query(log[p]))
               /\ history[i + 1] = AssistantTurn(Answer(log[p]))

\* C14 witness: a query on a session six earlier queries have succeeded on,
\* handed the turns of the last five
C14_Witness ==
  \E t \in Threads :
    /\ pc[t] = "generate"
    /\ Len(Logged(loc[t].session_id)) >= 6
    /\ Len(Deref(loc[t].conversation_history)) = MaxTurns

\* C16: the confidence score of every query result lies in [0, 1], for
\* every result list the store can return (distances in [0, 2]) and every
\* per-call top_k.
C16_ConfidenceInUnitInterval ==
  \A t \in Threads :
    pc[t] = "done" =>
      loc[t].result.confidence_score >= 0 /\ loc[t].result.confidence_score <= One

\* The last two turns the memory holds for a session
LastTurns(sid) == LastN(TurnsOf(sid), 2)

\* C17: a query whose search yields no result is not an error: generation
\* is called once, with an empty context; the result has context_used = 0,
\* no sources and confidence 0.0; the exchange is in the session memory.
C17_EmptySearchIsNotAnError ==
  \A t \in Threads :
    (loc[t].calls.search = 1 /\ loc[t].relevant_docs = <<>>) =>
      /\ loc[t].context = <<>>
      /\ pc[t] = "failed" => loc[t].calls.generate = 1
      /\ pc[t] = "upd_check" =>
           /\ loc[t].calls.generate = 1
           /\ loc[t].prompt.context = <<>>
           /\ loc[t].prompt.query = Query(loc[t].qn)
      /\ pc[t] = "done" =>
           /\ loc[t].calls.generate = 1
           /\ loc[t].result.answer = Answer(loc[t].qn)
           /\ loc[t].result.context_used = 0
           /\ loc[t].result.sources = <<>>
           /\ loc[t].result.confidence_score = 0
           /\ LastTurns(loc[t].session_id) =
                <<UserTurn(Query(loc[t].qn)), AssistantTurn(Answer(loc[t].qn))>>

\* C17 witness: a finished query that searched every collection and found
\* nothing
C17_Witness ==
  \E t \in Threads :
    /\ pc[t] = "done"
    /\ loc[t].searched = SourceKeys
    /\ loc[t].relevant_docs = <<>>
    /\ Len(TurnsOf(loc[t].session_id)) >= 2

\* C18: in every query result context_used is the length of sources, and
\* sources[i] describes the i-th result the search returned, which is also
\* block i of the context; nothing is re-sorted, dropped or added after the
\* search.
C18_SourcesMatchSearchResults ==
  /\ [](\A t \in Threads :
          /\ loc[t].calls.search = 1 =>
               /\ Len(loc[t].context) = Len(loc[t].relevant_docs)
               /\ \A i \in 1..Len(loc[t].relevant_docs) :
                    /\ loc[t].context[i].n = i
                    /\ loc[t].context[i].source = loc[t].relevant_docs[i].source
                    /\ loc[t].context[i].score = loc[t].relevant_docs[i].score
                    /\ loc[t].context[i].content = loc[t].relevant_docs[i].content
          /\ pc[t] = "upd_check" => loc[t].prompt.context = loc[t].context
          /\ pc[t] = "done" =>
               /\ loc[t].result.context_used = Len(loc[t].result.sources)
               /\ Len(loc[t].result.sources) = Len(loc[t].relevant_docs)
               /\ \A i \in 1..Len(loc[t].relevant_docs) :
                    /\ loc[t].result.sources[i].source = loc[t].relevant_docs[i].source
                    /\ loc[t].result.sources[i].relevance_score = loc[t].relevant_docs[i].score
                    /\ loc[t].result.sources[i].preview = loc[t].relevant_docs[i].content)
  /\ [][\A t \in Threads :
          (loc[t].calls.search = 1 /\ pc'[t] # "idle") =>
            /\ loc'[t].relevant_docs = loc[t].relevant_docs
            /\ loc'[t].context = loc[t].context]_vars

\* C18 witness: a result with sources of two collections and different
\* scores
C18_Witness ==
  \E t \in Threads :
    /\ pc[t] = "done"
    /\ Len(loc[t].result.sources) >= 2
    /\ loc[t].result.sources[1].source # loc[t].result.sources[2].source
    /\ loc[t].result.sources[1].relevance_score # loc[t].result.sources[2].relevance_score

\* The place of a position of query in the order of its steps
Phase(p) ==
  CASE p = "idle" -> 0
    [] p = "intent" -> 1
    [] p = "embed" -> 2
    [] p = "search" -> 3
    [] p = "history" -> 4
    [] p = "generate" -> 5
    [] p \in UpdatePcs -> 6
    [] p = "result" -> 7
    [] p = "done" -> 8
    [] OTHER -> 9

\* C20: a query takes its steps in the order intent resolution, embedding,
\* search and context assembly, history read, generation, memory update,
\* result; classify, embed, search and generate are each called at most
\* once; a failing classification does not end the query; a failing
\* embedding or generation ends it with an error, and no later step is
\* executed.
C20_StepsInOrderWithoutRetry ==
  /\ [](\A t \in Threads :
          LET c == loc[t].calls
              ph == Phase(pc[t])
          IN /\ c.classify = (IF loc[t].classifier = "NOT_CALLED" THEN 0 ELSE 1)
             /\ (ph >= 2 /\ ~Truthy(loc[t].arg_filter)) => c.classify = 1
             /\ pc[t] # "failed" =>
                  /\ c.embed = (IF ph >= 3 THEN 1 ELSE 0)
                  /\ c.search = (IF ph >= 4 THEN 1 ELSE 0)
                  /\ c.generate = (IF ph >= 6 THEN 1 ELSE 0)
             /\ pc[t] = "failed" =>
                  /\ c.embed = 1
                  /\ c.search = c.generate
                  /\ c.search \in {0, 1}
                  /\ c.search = 0 => loc[t].relevant_docs = <<>> /\ loc[t].context = <<>>
                  /\ loc[t].response = NoResponse
                  /\ loc[t].result = NoResult
                  /\ \A i \in 1..Len(TurnsOf(loc[t].session_id)) :
                       TurnsOf(loc[t].session_id)[i].content[2] # loc[t].qn)
  /\ [][\A t \in Threads :
          pc'[t] # pc[t] =>
            \/ pc'[t] = "failed" /\ pc[t] \in {"embed", "generate"}
            \/ pc'[t] = "idle" /\ pc[t] \in {"done", "failed"}
            \/ Phase(pc'[t]) = Phase(pc[t]) + 1 /\ pc'[t] # "failed"
            \/ Phase(pc'[t]) = 6 /\ Phase(pc[t]) = 6]_vars

\* C20 witness: the classification of a query has raised, the query went
\* on, and its embedding has raised
C20_Witness ==
  \E t \in Threads :
    /\ pc[t] = "failed"
    /\ loc[t].classifier = "RAISE"
    /\ loc[t].calls.embed = 1
    /\ loc[t].calls.search = 0

\* C24: a failure or an out-of-set answer of the intent classifier never
\* makes a query fail: classify_intent returns "GENERAL" in both cases and
\* the query continues with embedding, search and generation.
C24_ClassifierFailureIsGeneral ==
  /\ [](/\ ClassifyIntent("RAISE") = "GENERAL"
        /\ ClassifyIntent("SOLAR") = "GENERAL"
        /\ \A t \in Threads :
             loc[t].classifier \in {"RAISE", "SOLAR"} =>
               /\ loc[t].source_filter = ClassifyIntent(loc[t].classifier)
               /\ pc[t] = "failed" => loc[t].calls.embed = 1
               /\ pc[t] = "done" =>
                    /\ loc[t].calls = [classify |-> 1, embed |-> 1,
                                       search |-> 1, generate |-> 1]
                    /\ loc[t].result.intent_classification = "GENERAL"
                    /\ loc[t].result.answer = Answer(loc[t].qn))
  /\ [][\A t \in Threads :
          (pc[t] = "intent" /\ pc'[t] # pc[t]) =>
            /\ pc'[t] = "embed"
            /\ loc'[t].calls.embed = 0]_vars

\* C24 witness: a query whose classifier answered out of the set has
\* finished with an answer built on a fragment it found
C24_Witness ==
  \E t \in Threads :
    /\ pc[t] = "done"
    /\ loc[t].classifier = "SOLAR"
    /\ loc[t].calls.generate = 1
    /\ Len(loc[t].result.sources) >= 1

\* C26: DELETE /api/collections/{source} with a configured source resets
\* that collection (it is empty afterwards) and answers with status
\* "success"; with a source that is not configured it answers 400 and
\* changes nothing.
C26_ApiResetEmptiesCollection ==
  /\ [](op.name = "api_reset_collection" =>
          IF op.source \in SourceKeys
          THEN /\ op.status = 200
               /\ ~op.raised
               /\ collections[op.source] = <<>>
          ELSE op.status = 400)
  /\ [][(op'.n = op.n + 1 /\ op'.name = "api_reset_collection"
          /\ op'.source \notin SourceKeys) =>
            UNCHANGED <<collections, chroma>>]_vars

\* C29: under sequential execution, between memory updates every session of
\* the conversation memory holds a non-empty, even number of turns that
\* alternate user, assistant, ... starting with a user turn, each assistant
\* turn answering the user turn before it, also after the truncation to 10;
\* and a session, once created, is never removed.
C29_SessionsHoldAlternatingPairs ==
  /\ [](Quiescent =>
          \A sid \in DOMAIN conversation_memory :
            LET turns == TurnsOf(sid)
            IN /\ Len(turns) >= 2
               /\ Len(turns) % 2 = 0
               /\ Len(turns) <= MaxTurns
               /\ \A i \in 1..Len(turns) :
                    turns[i].role = IF i % 2 = 1 THEN "user" ELSE "assistant"
               /\ \A i \in 1..Len(turns) :
                    i % 2 = 0 =>
                      /\ turns[i - 1].content[1] = "query"
                      /\ turns[i].content[1] = "answer"
                      /\ turns[i].content[2] = turns[i - 1].content[2])
  /\ [][/\ DOMAIN conversation_memory \subseteq DOMAIN conversation_memory'
        /\ Cardinality(DOMAIN conversation_memory') >=
             Cardinality(DOMAIN conversation_memory)]_vars

\* C29 witness: no query is running, a session has lost its oldest pair to
\* the truncation and holds 10 turns, and a second session exists
C29_Witness ==
  /\ AllIdle
  /\ Cardinality(DOMAIN conversation_memory) >= 2
  /\ \E sid \in DOMAIN conversation_memory :
       /\ Len(Logged(sid)) > MaxTurns \div 2
       /\ Len(TurnsOf(sid)) = MaxTurns
       /\ TurnsOf(sid)[1].content[2] = Logged(sid)[2]

\* ========================================================================
\* Properties of ingest_document_file and extract_text_from_pdf
\* ========================================================================
\* C27: a document ingested with source "NEC" has only its first
\* NEC_MAX_PAGES (100) PDF pages extracted, whatever its filename; a PDF
\* ingested with another source has all its pages extracted.
C27_PageLimitFollowsSource ==
  pdf.state = "done" =>
    pdf.extracted = IF pdf.source = "NEC"
                    THEN Min(NEC_MAX_PAGES, pdf.total_pages)
                    ELSE pdf.total_pages

\* ========================================================================
\* Properties of chunk_text
\* ========================================================================
\* C30: chunk_text(text, max_chars, overlap) terminates for every text and
\* every max_chars > overlap >= 0; it returns only non-empty chunks of
\* length at most max_chars, the start offsets advance by
\* max_chars - overlap, and every character of the text is in at least one
\* chunk; with overlap >= max_chars and a non-empty text the loop condition
\* stays true and the call never returns.
C30_ChunkTextTerminatesAndCovers ==
  /\ [](ck.max_chars > ck.overlap /\ ck.overlap >= 0 =>
          /\ \A k \in 1..Len(ck.chunks) :
               LET chunk == ck.chunks[k]
               IN /\ chunk # <<>>
                  /\ Len(chunk) <= ck.max_chars
                  /\ chunk[1] = (k - 1) * (ck.max_chars - ck.overlap) + 1
                  /\ \A j \in 1..Len(chunk) : chunk[j] = ck.text[chunk[1] + j - 1]
                  /\ Len(chunk) < ck.max_chars => chunk[Len(chunk)] = Len(ck.text)
          /\ ck.state = "done" =>
               \A p \in 1..Len(ck.text) :
                 \E k \in 1..Len(ck.chunks) :
                   \E j \in 1..Len(ck.chunks[k]) : ck.chunks[k][j] = ck.text[p])
  /\ ((ck.state = "loop" /\ ck.max_chars > ck.overlap /\ ck.overlap >= 0)
        ~> ck.state = "done")
  /\ []((ck.state # "idle" /\ ck.overlap >= ck.max_chars /\ ck.text # <<>>) =>
          /\ ck.state = "loop"
          /\ ck.i < Len(ck.text))

\* C30 witness: a call with an overlap has returned four chunks, the last
\* one shorter than max_chars
C30_Witness ==
  /\ ck.state = "done"
  /\ ck.overlap >= 1
  /\ ck.max_chars > ck.overlap
  /\ Len(ck.chunks) >= 4
  /\ Len(ck.chunks[Len(ck.chunks)]) < ck.max_chars

\* C25: a query, successful or failed, never changes the contents of any
\* collection: no step from its start to its return changes a collection;
\* only add_documents, delete_collection and reset_all_collections do, and
\* add_documents(S) and delete_collection(S) change only collection S.
C25_QueriesLeaveCollections ==
  [][/\ (~AllIdle \/ ~AllIdle') => UNCHANGED <<collections, chroma>>
     /\ collections' # collections =>
          /\ StoreStep({"add_documents", "delete_collection", "reset_all_collections"})
          /\ ~op'.raised
          /\ op'.name \in {"add_documents", "delete_collection"} =>
               /\ op'.source \in SourceKeys
               /\ \A s \in SourceKeys \ {op'.source} : collections'[s] = collections[s]
          /\ op'.name = "add_documents" =>
               /\ Len(collections'[op'.source]) > Len(collections[op'.source])
               /\ SubSeq(collections'[op'.source], 1, Len(collections[op'.source]))
                    = collections[op'.source]
          /\ op'.name = "delete_collection" => collections'[op'.source] = <<>>
          /\ op'.name = "reset_all_collections" =>
               \A s \in SourceKeys : collections'[s] = <<>>]_vars

\* C25 witness: after additions to two collections and the deletion of one
\* of them, a query has found a fragment of the other and finished
C25_Witness ==
  \E t \in Threads :
    /\ pc[t] = "done"
    /\ Len(loc[t].relevant_docs) >= 1
    /\ op.name = "delete_collection"
    /\ op.cleared >= 1
    /\ collections[loc[t].arg_filter] # <<>>

\* ========================================================================
\* Properties of VectorStore.delete_collection
\* ========================================================================
\* C19: delete_collection of a configured source does not raise and leaves
\* the collection empty, the first time and when it is repeated; a later
\* add into that collection succeeds and a later search of it returns.
C19_ResetIsIdempotent ==
  /\ []((op.name = "delete_collection" /\ op.source \in SourceKeys) =>
          /\ ~op.raised
          /\ collections[op.source] = <<>>
          /\ CollectionName(op.source) \in chroma)
  /\ [][(/\ op.name = "delete_collection" /\ op.source \in SourceKeys
          /\ op'.name = "add_documents" /\ op'.source = op.source) =>
            /\ ~op'.raised
            /\ Len(collections'[op.source]) = op'.added]_vars
  /\ [][(/\ op.name = "delete_collection" /\ op.source \in SourceKeys
          /\ sq.state = "ready" /\ sq.source = op.source
          /\ sq'.state # "ready") =>
            /\ sq'.state = "done"
            /\ sq'.result = <<>>]_vars

\* C19 witness: a collection that held fragments was reset twice in a row
C19_Witness ==
  /\ op.name = "delete_collection"
  /\ op.source \in SourceKeys
  /\ op.repeat = 2
  /\ op.cleared >= 1
  /\ ~op.raised

\* The document ids a collection holds
StoredIds(colls) ==
  UNION {{colls[s][i].id : i \in 1..Len(colls[s])} : s \in DOMAIN colls}

\* C21: add_documents and delete_collection with a source that is not a
\* configured key raise and leave every collection as it was.
C21_UnknownSourceRejected ==
  [][(StoreStep({"add_documents", "delete_collection"}) /\ op'.source \notin SourceKeys) =>
       /\ op'.raised
       /\ collections' = collections
       /\ chroma' = chroma]_vars

\* C21 witness: add_documents for an unknown source has raised while a
\* collection holds fragments
C21_Witness ==
  /\ op.name = "add_documents"
  /\ op.source = "BOGUS"
  /\ op.raised
  /\ \E s \in SourceKeys : collections[s] # <<>>

\* C23: after any sequence of ingest_document, add_documents and
\* delete_collection calls every fragment stored in the collection of a
\* source has that source as the "source" value of its metadata.
C23_FragmentsCarryCollectionSource ==
  \A s \in SourceKeys : \A i \in 1..Len(collections[s]) : collections[s][i].msource = s

\* C28: an ingest_document that raises (parsing, embedding of any chunk, or
\* the store) adds no fragment to any collection; one that returns reports
\* as many document_ids as chunks_created, pairwise distinct, none of them
\* stored before, and the fragments it added are stored under them.
C28_IngestIsAllOrNothing ==
  [][StoreStep({"ingest_document"}) =>
       IF op'.raised
       THEN collections' = collections
       ELSE /\ Len(op'.ids) = op'.chunks
            /\ \A i, j \in 1..Len(op'.ids) : i # j => op'.ids[i] # op'.ids[j]
            /\ \A i \in 1..Len(op'.ids) : op'.ids[i] \notin StoredIds(collections)
            /\ \A s \in SourceKeys \ {op'.source} : collections'[s] = collections[s]
            /\ Len(collections'[op'.source]) = Len(collections[op'.source]) + op'.chunks
            /\ \A i \in 1..Len(collections[op'.source]) :
                 collections'[op'.source][i] = collections[op'.source][i]
            /\ \A i \in 1..op'.chunks :
                 collections'[op'.source][Len(collections[op'.source]) + i].id = op'.ids[i]]_vars

\* C28 witness: the embedding of a chunk has raised in an ingestion that
\* follows a successful one
C28_Witness ==
  /\ op.name = "ingest_document"
  /\ op.raised
  /\ op.stage = "embed"
  /\ op.issued >= 2
  /\ \E s \in SourceKeys : collections[s] # <<>>

\* ========================================================================
\* Properties of RAGService._calculate_confidence_score
\* ========================================================================
\* C15: the confidence is 0.0 for an empty result list, and otherwise
\* round(0.7 * score of the first result + 0.3 * min(number of results /
\* configured TOP_K_RESULTS, 1.0), 2), whatever the per-call top_k; a top
\* score of 0.9 with 3 results gives 0.81.
C15_ConfidenceFormula ==
  conf.state = "done" =>
    LET n == Len(conf.relevant_docs)
        share == (One * n) \div TOP_K_RESULTS
        capped == IF share < One THEN share ELSE One
    IN /\ n = 0 => conf.confidence = 0
       /\ n > 0 => conf.confidence = Round2(7 * conf.relevant_docs[1].score + 3 * capped)
       /\ (n = 3 /\ conf.relevant_docs[1].score = 90) => conf.confidence = 81

\* C15 witness: top score 0.9 and 3 results of a call with top_k = 3
C15_Witness ==
  /\ conf.state = "done"
  /\ conf.top_k = 3
  /\ Len(conf.relevant_docs) = 3
  /\ conf.relevant_docs[1].score = 90
  /\ conf.confidence = 81

====
